---- MODULE Spec2Model ----
(***************************************************************************)
(* A model of jsonParser.cpp: the Node value model, the cursor-based       *)
(* recursive-descent JsonParser, JsonGenerator, and the driver operations  *)
(* of main (parser, key assignment, push, printing).                       *)
(*                                                                         *)
(* Text is a sequence of one-character strings.  A Node's value is a       *)
(* record tagged by its variant (field t).  json::Object is a std::map:    *)
(* it is modelled as the sequence of <<key, value>> pairs in the order the *)
(* map iterates them.                                                      *)
(***************************************************************************)
EXTENDS Integers, Sequences, FiniteSets, TLC

VARIABLES str, pos, stack, ret, pc, cout, parsed, node, out, ops

vars == <<str, pos, stack, ret, pc, cout, parsed, node, out, ops>>

(***************************************************************************)
(* Bounds of the model.                                                    *)
(***************************************************************************)
\* longest text over Alphabet given to parser() as an arbitrary input
MaxLen == 3
\* most elements of an array / entries of an object in a generated tree or document
MaxElems == 2
\* most mutations (push, key assignment) the driver applies to its node
MaxOps == 2

(***************************************************************************)
(* Characters.                                                             *)
(***************************************************************************)
\* the byte that follows the text of a std::string ('\0'); str[str.size()] reads it
NUL == "NUL"

Digits == <<"0", "1", "2", "3", "4", "5", "6", "7", "8", "9">>

isdigit(c) == \E i \in 1..10 : Digits[i] = c

DigitVal(c) == (CHOOSE i \in 1..10 : Digits[i] = c) - 1

\* the "C" locale's white space (\v, the sixth, cannot be written in a TLA+ string)
isspace(c) == c \in {" ", "\t", "\n", "\r", "\f"}

\* the characters the model's texts are made of, in ascending order of their byte
CharOrder == <<"\t", "\n", "\f", "\r", " ", "\"", ",", "-", ".",
               "0", "1", "2", "3", "4", "5", "6", "7", "8", "9", ":",
               "[", "]", "a", "b", "e", "f", "l", "n", "r", "s", "t", "u",
               "x", "{", "}">>

CharCode(c) == CHOOSE i \in 1..Len(CharOrder) : CharOrder[i] = c

Min(a, b) == IF a < b THEN a ELSE b

\* str[p]: one past the end is the terminator of the std::string the view is of
At(s, p) == IF p < Len(s) THEN s[p + 1] ELSE NUL

\* str.substr(p, n), for p <= str.size()
substr(s, p, n) == SubSeq(s, p + 1, Min(p + n, Len(s)))

\* std::string::find(c) != npos
Contains(s, c) == \E i \in 1..Len(s) : s[i] = c

\* std::string's operator<, the order of std::map<std::string, Node>
RECURSIVE StrLess(_, _)
StrLess(a, b) ==
    IF b = <<>> THEN FALSE
    ELSE IF a = <<>> THEN TRUE
    ELSE IF a[1] # b[1] THEN CharCode(a[1]) < CharCode(b[1])
    ELSE StrLess(Tail(a), Tail(b))

(***************************************************************************)
(* The value model: json::Value and json::Node.                            *)
(***************************************************************************)
NullV == [t |-> "Null"]

BoolV(b) == [t |-> "Bool", b |-> b]

IntV(n) == [t |-> "Int", n |-> n]

\* a double written m * 10^e with m not divisible by 10 (zero is m = 0, e = 0):
\* two doubles of at most 15 significant digits are equal iff m and e are
FloatV(m, e) == [t |-> "Float", m |-> m, e |-> e]

StringV(s) == [t |-> "String", s |-> s]

ArrayV(a) == [t |-> "Array", a |-> a]

ObjectV(o) == [t |-> "Object", o |-> o]

\* Node() : value(Null{})
DefaultNode == NullV

\* std::map::find: the index of key k among the entries, 0 when absent
MapFind(o, k) == IF \E i \in 1..Len(o) : o[i][1] = k
                 THEN CHOOSE i \in 1..Len(o) : o[i][1] = k
                 ELSE 0

\* the number of entries whose key orders before k: where std::map keeps a new key
MapLowerBound(o, k) == Cardinality({i \in 1..Len(o) : StrLess(o[i][1], k)})

\* (mutant) std::map::insert in place of operator[]: an existing key keeps its value
MapAssignKeepFirst(o, k, v) ==
    IF MapFind(o, k) # 0 THEN o
    ELSE LET n == MapLowerBound(o, k)
         IN  SubSeq(o, 1, n) \o << <<k, v>> >> \o SubSeq(o, n + 1, Len(o))

\* obj[key] = val on a std::map: overwrite the entry of an existing key, else
\* insert a new entry at the key's place in the order
MapAssign(o, k, v) ==
    LET i == MapFind(o, k)
    IN  IF i # 0 THEN [o EXCEPT ![i] = <<k, v>>]
        ELSE LET n == MapLowerBound(o, k)
             IN  SubSeq(o, 1, n) \o << <<k, v>> >> \o SubSeq(o, n + 1, Len(o))

\* (mutant) the new element put first
pushFront(n, v) == IF n.t = "Array" THEN ArrayV(<<v>> \o n.a) ELSE n

\* Node::push: push_back on an Array, nothing on any other variant
push(n, v) == IF n.t = "Array" THEN ArrayV(Append(n.a, v)) ELSE n

\* Node::operator[](const std::string&) finds an entry: the node is an Object and
\* std::map::at does not throw
HasField(n, k) == n.t = "Object" /\ MapFind(n.o, k) # 0

\* (mutant) the reference to the first entry of the map in place of at(key)
FieldAssignFirst(n, k, v) == ObjectV([n.o EXCEPT ![1] = <<n.o[1][1], v>>])

\* node[k].value = v, through the reference operator[] returns (HasField(n, k))
FieldAssign(n, k, v) == ObjectV([n.o EXCEPT ![MapFind(n.o, k)] = <<k, v>>])

(***************************************************************************)
(* Number conversion: std::stoi, std::stod, std::to_string.                *)
(***************************************************************************)
\* the largest int: std::stoi returns int and throws std::out_of_range above it
INT_MAX == 2147483647

\* the largest decimal exponent of a finite double: std::stod throws above DBL_MAX
DBL_MAX_10_EXP == 308

\* the leading digits of s
RECURSIVE DigitPrefix(_)
DigitPrefix(s) ==
    IF s # <<>> /\ isdigit(s[1]) THEN <<s[1]>> \o DigitPrefix(Tail(s)) ELSE <<>>

\* the value of the digits s added to acc, or -1 once it exceeds lim
RECURSIVE Accumulate(_, _, _)
Accumulate(s, acc, lim) ==
    IF s = <<>> THEN acc
    ELSE LET d == DigitVal(s[1])
         IN  IF acc > (lim - d) \div 10 THEN -1
             ELSE Accumulate(Tail(s), acc * 10 + d, lim)

\* std::stoi(num): no digits throws std::invalid_argument, a value above INT_MAX
\* throws std::out_of_range (ok = FALSE); otherwise the value of the digits
stoi(num) ==
    LET v == Accumulate(DigitPrefix(num), 0, INT_MAX)
    IN  IF DigitPrefix(num) = <<>> \/ v < 0 THEN [ok |-> FALSE]
        ELSE [ok |-> TRUE, n |-> v]

\* m * 10^e with the trailing zeros of m moved into e
RECURSIVE Normalize(_, _)
Normalize(m, e) ==
    IF m = 0 THEN [m |-> 0, e |-> 0]
    ELSE IF m % 10 = 0 THEN Normalize(m \div 10, e + 1)
    ELSE [m |-> m, e |-> e]

\* the number of decimal digits of m > 0
RECURSIVE NumDigits(_)
NumDigits(m) == IF m < 10 THEN 1 ELSE 1 + NumDigits(m \div 10)

\* the first nine significant digits of m > 0 (m padded with zeros)
RECURSIVE Lead9(_)
Lead9(m) == IF m >= 100000000 THEN m ELSE Lead9(m * 10)

\* std::stod(num) for a token that starts with a digit: the longest prefix
\* digits [. digits] [e digits] is converted and the rest of the token ignored;
\* a value above DBL_MAX throws std::out_of_range (ok = FALSE).
\* (At most nine mantissa digits and no underflow within the model's texts.)
stod(num) ==
    LET ip   == DigitPrefix(num)
        r1   == SubSeq(num, Len(ip) + 1, Len(num))
        dot  == r1 # <<>> /\ r1[1] = "."
        fr   == IF dot THEN DigitPrefix(Tail(r1)) ELSE <<>>
        r2   == IF dot THEN SubSeq(r1, Len(fr) + 2, Len(r1)) ELSE r1
        ex   == IF r2 # <<>> /\ r2[1] = "e" THEN DigitPrefix(Tail(r2)) ELSE <<>>
        expo == Accumulate(ex, 0, 100000)
        mant == Accumulate(ip \o fr, 0, INT_MAX)
        nf   == Normalize(mant, (IF expo < 0 THEN 100000 ELSE expo) - Len(fr))
        mag  == NumDigits(nf.m) + nf.e - 1
    IN  IF ip = <<>> THEN [ok |-> FALSE]
        ELSE IF nf.m # 0 /\ (mag > DBL_MAX_10_EXP
                             \/ (mag = DBL_MAX_10_EXP /\ Lead9(nf.m) > 179769313))
             THEN [ok |-> FALSE]
        ELSE [ok |-> TRUE, m |-> nf.m, e |-> nf.e]

\* the decimal digits of n >= 0
RECURSIVE NatToString(_)
NatToString(n) ==
    IF n < 10 THEN <<Digits[n + 1]>>
    ELSE NatToString(n \div 10) \o <<Digits[(n % 10) + 1]>>

\* std::to_string(int64_t)
IntToString(n) == IF n < 0 THEN <<"-">> \o NatToString(-n) ELSE NatToString(n)

Zeros(k) == [i \in 1..k |-> "0"]

\* the digits s plus one, with the carry (s is then one digit longer)
RECURSIVE IncDigits(_)
IncDigits(s) ==
    IF s = <<>> THEN <<"1">>
    ELSE LET d == DigitVal(s[Len(s)])
         IN  IF d < 9 THEN SubSeq(s, 1, Len(s) - 1) \o <<Digits[d + 2]>>
             ELSE IncDigits(SubSeq(s, 1, Len(s) - 1)) \o <<"0">>

\* std::to_string(double) is sprintf("%f"): the value rounded to six decimals.
\* (Exact for values of at most 15 significant digits below 2^53 whose dropped
\* digits are not exactly one half, which is what the model's doubles are.)
FloatToString(m, e) ==
    LET a    == IF m < 0 THEN -m ELSE m
        d    == NatToString(a)
        k    == IF e < 0 THEN -e ELSE 0
        all  == IF e >= 0 THEN d \o Zeros(e)
                ELSE Zeros(IF k + 1 > Len(d) THEN k + 1 - Len(d) ELSE 0) \o d
        \* all = integer digits followed by k fraction digits
        kept == IF k <= 6 THEN all \o Zeros(6 - k)
                ELSE SubSeq(all, 1, Len(all) - (k - 6))
        up   == k > 6 /\ DigitVal(all[Len(all) - (k - 6) + 1]) >= 5
        fix  == IF up THEN IncDigits(kept) ELSE kept
    IN  (IF m < 0 THEN <<"-">> ELSE <<>>)
        \o SubSeq(fix, 1, Len(fix) - 6) \o <<".">> \o SubSeq(fix, Len(fix) - 5, Len(fix))

(***************************************************************************)
(* JsonGenerator.                                                          *)
(***************************************************************************)
Quote == "\""

\* std::string::pop_back
PopBack(s) == SubSeq(s, 1, Len(s) - 1)

generate_string(s) == <<Quote>> \o s \o <<Quote>>

RECURSIVE generate(_), generate_array(_), generate_object(_),
          ArrayItems(_), ObjectItems(_)

\* the loop of generate_array: every element followed by a comma
ArrayItems(arr) ==
    IF arr = <<>> THEN <<>>
    ELSE generate(arr[1]) \o <<",">> \o ArrayItems(Tail(arr))

\* the loop of generate_object: every "key":value followed by a comma, in the
\* order the std::map iterates
ObjectItems(obj) ==
    IF obj = <<>> THEN <<>>
    ELSE generate_string(obj[1][1]) \o <<":">> \o generate(obj[1][2]) \o <<",">>
         \o ObjectItems(Tail(obj))

\* (mutant) without the pop_back of the last comma
generate_array_keep_comma(arr) == <<"[">> \o ArrayItems(arr) \o <<"]">>

generate_array(arr) ==
    LET json_ret == <<"[">> \o ArrayItems(arr)
    IN  (IF Len(json_ret) > 1 THEN PopBack(json_ret) ELSE json_ret) \o <<"]">>

generate_object(obj) ==
    LET json_ret == <<"{">> \o ObjectItems(obj)
    IN  (IF Len(json_ret) > 1 THEN PopBack(json_ret) ELSE json_ret) \o <<"}">>

\* JsonGenerator::generate: std::visit over the variant
generate(n) ==
    CASE n.t = "Null"   -> <<"n", "u", "l", "l">>
      [] n.t = "Bool"   -> IF n.b THEN <<"t", "r", "u", "e">>
                           ELSE <<"f", "a", "l", "s", "e">>
      [] n.t = "Int"    -> IntToString(n.n)
      [] n.t = "Float"  -> FloatToString(n.m, n.e)
      [] n.t = "Array"  -> generate_array(n.a)
      [] n.t = "Object" -> generate_object(n.o)
      [] n.t = "String" -> generate_string(n.s)

(***************************************************************************)
(* JsonParser: the productions that call no other production.  Each takes  *)
(* the text and the cursor and yields the std::expected it returns (ok,    *)
(* val or err), the cursor it leaves (pos) and whether it read str[size]   *)
(* (oob).                                                                  *)
(***************************************************************************)
NoErr == [msg |-> "", arg |-> <<>>]

Err(m, a) == [msg |-> m, arg |-> a]

\* a std::expected holding a value / holding an error / not yet returned
Expected(v) == [ok |-> TRUE, val |-> v, err |-> NoErr]

Unexpected(e) == [ok |-> FALSE, val |-> NullV, err |-> e]

NoResult == [ok |-> FALSE, val |-> NullV, err |-> NoErr]

Returns(r, p, o) == [ok |-> r.ok, val |-> r.val, err |-> r.err, pos |-> p, oob |-> o]

\* while (std::isspace(str[pos])) pos++ : the cursor it ends at (it has then
\* read str[that cursor], which is str[size] when the text has ended)
RECURSIVE parse_whitespace(_, _)
parse_whitespace(s, p) ==
    IF isspace(At(s, p)) THEN parse_whitespace(s, p + 1) ELSE p

\* while (pos < str.size() && str[pos] == ',') pos++
RECURSIVE SkipCommas(_, _)
SkipCommas(s, p) ==
    IF p < Len(s) /\ s[p + 1] = "," THEN SkipCommas(s, p + 1) ELSE p

parse_null(s, p) ==
    IF substr(s, p, 4) = <<"n", "u", "l", "l">>
    THEN Returns(Expected(NullV), p + 4, FALSE)
    ELSE Returns(Unexpected(Err(" is not defined, wanna use \"null\"? ",
                                substr(s, p, 4))), p, FALSE)

parse_true(s, p) ==
    IF substr(s, p, 4) = <<"t", "r", "u", "e">>
    THEN Returns(Expected(BoolV(TRUE)), p + 4, FALSE)
    ELSE Returns(Unexpected(Err(" is not defined, wanna use \"true\"? ",
                                substr(s, p, 4))), p, FALSE)

parse_false(s, p) ==
    IF substr(s, p, 5) = <<"f", "a", "l", "s", "e">>
    THEN Returns(Expected(BoolV(FALSE)), p + 5, FALSE)
    ELSE Returns(Unexpected(Err(" is not defined, wanna use \"false\"? ",
                                substr(s, p, 5))), p, FALSE)

\* the scan of parse_numbers: past the digits, '.' and 'e'
RECURSIVE ScanNumber(_, _)
ScanNumber(s, p) ==
    IF p < Len(s) /\ (isdigit(s[p + 1]) \/ s[p + 1] = "." \/ s[p + 1] = "e")
    THEN ScanNumber(s, p + 1) ELSE p

\* (mutant) without pos = endpos: the numeral is converted, the cursor stays
parse_numbers_stay(s, p) ==
    LET p0  == parse_whitespace(s, p)
        num == substr(s, p0, ScanNumber(s, p0) - p0)
        i   == stoi(num)
    IN  IF i.ok THEN Returns(Expected(IntV(i.n)), p0, FALSE)
        ELSE Returns(Unexpected(Err("try parsing to integer, but failed.", num)),
                     p0, FALSE)

parse_numbers(s, p) ==
    LET p0     == parse_whitespace(s, p)
        endpos == ScanNumber(s, p0)
        num    == substr(s, p0, endpos - p0)
        oob    == p0 >= Len(s)
    IN  IF Contains(num, ".") \/ Contains(num, "e")
        THEN LET f == stod(num)
             IN  IF f.ok THEN Returns(Expected(FloatV(f.m, f.e)), endpos, oob)
                 ELSE Returns(Unexpected(Err("try parsing to float, but failed.", num)),
                              endpos, oob)
        ELSE LET i == stoi(num)
             IN  IF i.ok THEN Returns(Expected(IntV(i.n)), endpos, oob)
                 ELSE Returns(Unexpected(Err("try parsing to integer, but failed.", num)),
                              endpos, oob)

\* the scan of parse_string: to the next '"' or the end of the text
RECURSIVE ScanString(_, _)
ScanString(s, p) ==
    IF p < Len(s) /\ s[p + 1] # Quote THEN ScanString(s, p + 1) ELSE p

parse_string(s, p) ==
    LET p1     == IF At(s, p) = Quote THEN p + 1 ELSE p
        endpos == ScanString(s, p1)
        oob    == p >= Len(s) \/ endpos >= Len(s)
    IN  IF At(s, endpos) # Quote
        THEN Returns(Unexpected(Err("failed to find '\"'", <<>>)), p1, oob)
        ELSE Returns(Expected(StringV(substr(s, p1, endpos - p1))), endpos + 1, oob)

(***************************************************************************)
(* JsonParser: parse_value, parse_array and parse_object call each other.  *)
(* Their activations are the frames of stack; pc is where the parser is:   *)
(*   "value"  about to run parse_value() at the cursor                     *)
(*   "loop"   at the loop test of the array / object of the top frame      *)
(*   "ret"    parse_value() has returned ret to its caller (the loop body  *)
(*            of the top frame, or parse() when the stack is empty)        *)
(*   "idle"   no parse is running: the driver (main) has control           *)
(*   "exit"   the process has ended in exit(0)                             *)
(*   "abort"  the process has ended abnormally: an uncaught exception, or  *)
(*            the library's check of str[pos] when pos == str.size()       *)
(* Reading str[str.size()] is outside the std::string_view: the build      *)
(* either reads the terminator of the std::string behind it (NUL) or, with *)
(* the library's checks on, aborts.  A step that makes such a read (oob)   *)
(* has both outcomes.                                                      *)
(***************************************************************************)
Parsing == pc \in {"value", "loop", "ret"}

\* an activation of parse_array / parse_object: the container built so far
\* (ret / obj), the key of the entry being parsed, and, to observe progress,
\* the cursor at which the current iteration of its loop began
Frame(k, a, key, st) == [kind |-> k, acc |-> a, key |-> key, start |-> st]

Top == stack[Len(stack)]

Pop == SubSeq(stack, 1, Len(stack) - 1)

ReplaceTop(f) == [stack EXCEPT ![Len(stack)] = f]

\* what a step does when every read of str[size] yields NUL
Goes(c, p, st, r, msg, o) ==
    [pc |-> c, pos |-> p, stack |-> st, ret |-> r, cout |-> msg, oob |-> o]

\* std::cout << ret.error() << std::endl; exit(0);
Exits(p, e, o) == Goes("exit", p, stack, ret, e, o)

Commit(g) ==
    /\ \/ /\ g.oob
          /\ pc' = "abort"
          /\ UNCHANGED <<pos, stack, ret, cout>>
       \/ /\ pc' = g.pc
          /\ pos' = g.pos
          /\ stack' = g.stack
          /\ ret' = g.ret
          /\ cout' = g.cout
    /\ UNCHANGED <<str, parsed, node, out, ops>>

\* a case of parse_value's switch: return the production's value, or print its
\* error and exit(0)
Dispatch(r, o) ==
    IF r.ok THEN Goes("ret", r.pos, stack, Expected(r.val), cout, o \/ r.oob)
    ELSE Exits(r.pos, r.err, o \/ r.oob)

\* parse_value, up to the production it dispatches to: the leaf productions run
\* to their end, parse_array and parse_object up to their loop
parse_value ==
    LET p1 == parse_whitespace(str, pos)
        c  == At(str, p1)
        o  == p1 >= Len(str)
    IN  CASE c = "n"   -> Dispatch(parse_null(str, p1), o)
          [] c = "t"   -> Dispatch(parse_true(str, p1), o)
          [] c = "f"   -> Dispatch(parse_false(str, p1), o)
          [] c = "["   -> Goes("loop", p1 + 1,
                               Append(stack, Frame("array", <<>>, <<>>, p1 + 1)),
                               ret, cout, o)
          [] c = "{"   -> LET p2 == parse_whitespace(str, p1 + 1)
                          IN  Goes("loop", p2,
                                   Append(stack, Frame("object", <<>>, <<>>, p2)),
                                   ret, cout, o \/ p2 >= Len(str))
          [] c = Quote -> Dispatch(parse_string(str, p1), o)
          [] OTHER     ->
               IF isdigit(c) THEN Dispatch(parse_numbers(str, p1), o)
               ELSE IF c = "]"
                    THEN Goes("ret", p1, stack,
                              Unexpected(Err("find ']' without '[' infront of", <<>>)),
                              cout, o)
               ELSE IF c = "}"
                    THEN Goes("ret", p1, stack,
                              Unexpected(Err("find '}' without '{' infront of", <<>>)),
                              cout, o)
               ELSE Goes("ret", p1, stack,
                         Unexpected(Err("find at the beginning, cant parse", <<c>>)),
                         cout, o)

\* the end of parse_array / parse_object, the loop left: without the closing
\* character the production returns an error, which parse_value prints before
\* exit(0); with it the container is returned through parse_value
Close(closing, msg, v) ==
    IF At(str, pos) # closing
    THEN Exits(pos, Err(msg, <<>>), pos >= Len(str))
    ELSE Goes("ret", pos + 1, Pop, Expected(v), cout, FALSE)

\* the end of an iteration of either loop: white space, commas, white space
Separators(p) == parse_whitespace(str, SkipCommas(str, parse_whitespace(str, p)))

\* parse_array at its loop test
array_loop ==
    IF pos < Len(str) /\ At(str, pos) # "]"
    THEN LET p1 == parse_whitespace(str, pos)
         IN  Goes("value", p1, ReplaceTop([Top EXCEPT !.start = pos]), ret, cout,
                  p1 >= Len(str))
    ELSE Close("]", "failed to find ']'", ArrayV(Top.acc))

\* parse_array after tmp = parse_value()
array_after ==
    IF ret.ok
    THEN LET p3 == Separators(pos)
         IN  Goes("loop", p3, ReplaceTop([Top EXCEPT !.acc = Append(@, ret.val)]),
                  ret, cout, p3 >= Len(str))
    ELSE Exits(pos, ret.err, FALSE)

\* parse_object at its loop test: the key, the colon, up to parse_value()
object_loop ==
    IF pos < Len(str) /\ At(str, pos) # "}"
    THEN LET key == parse_string(str, pos)
             p1  == parse_whitespace(str, key.pos)
             p2  == IF At(str, p1) = ":" THEN p1 + 1 ELSE p1
             p3  == parse_whitespace(str, p2)
         IN  IF ~key.ok
             THEN Exits(key.pos, Err("key of objects isnt string", <<>>), key.oob)
             ELSE Goes("value", p3,
                       ReplaceTop([Top EXCEPT !.key = key.val.s, !.start = pos]),
                       ret, cout, key.oob \/ p3 >= Len(str))
    ELSE Close("}", "failed to find '}'", ObjectV(Top.acc))

\* parse_object after val = parse_value()
object_after ==
    IF ret.ok
    THEN LET p3 == Separators(pos)
         IN  Goes("loop", p3,
                  ReplaceTop([Top EXCEPT !.acc = MapAssign(@, Top.key, ret.val)]),
                  ret, cout, p3 >= Len(str))
    ELSE Exits(pos, ret.err, FALSE)

(***************************************************************************)
(* The inputs of the model: the trees the driver may hold and the texts it *)
(* may hand to parser().                                                   *)
(***************************************************************************)
SeqsUpTo(S, n) == UNION {[1..k -> S] : k \in 0..n}

Keys == {<<"a">>, <<"b">>}

Leaves == {NullV, BoolV(TRUE), BoolV(FALSE), IntV(7), IntV(-1),
           FloatV(15, -1), FloatV(1, -7), StringV(<<>>), StringV(<<"a">>),
           StringV(<<Quote>>)}

Inner == {IntV(7), ArrayV(<<>>), ObjectV(<<>>), ArrayV(<<NullV>>),
          ObjectV(<< <<(<<"a">>), StringV(<<"b">>)>> >>)}

\* the std::map holding the entries es (a sequence of <<key, value>>), built by
\* assigning them in turn
RECURSIVE MapOf(_)
MapOf(es) ==
    IF es = <<>> THEN <<>>
    ELSE MapAssign(MapOf(SubSeq(es, 1, Len(es) - 1)), es[Len(es)][1], es[Len(es)][2])

ContainersOf(S) ==
    {ArrayV(a) : a \in SeqsUpTo(S, MaxElems)}
    \cup {ObjectV(MapOf(es)) : es \in SeqsUpTo(Keys \X S, MaxElems)}

Trees == Leaves \cup ContainersOf(Leaves) \cup ContainersOf(Inner)

\* the values the driver pushes and assigns
NewValues == {IntV(99), ArrayV(<<>>)}

Alphabet == {"[", "]", "{", "}", Quote, ",", ":", "1", "a", " "}

RandomTexts == SeqsUpTo(Alphabet, MaxLen)

\* the text of an object whose entries are es, repeated keys included
RECURSIVE DocItems(_)
DocItems(es) ==
    IF es = <<>> THEN <<>>
    ELSE (IF Len(es) > 1 THEN DocItems(SubSeq(es, 1, Len(es) - 1)) \o <<",">> ELSE <<>>)
         \o <<Quote>> \o es[Len(es)][1] \o <<Quote, ":">> \o generate(es[Len(es)][2])

DocText(es) == <<"{">> \o DocItems(es) \o <<"}">>

DocValues == {IntV(1), IntV(2), StringV(<<"a">>)}

Docs == SeqsUpTo(Keys \X DocValues, MaxElems + 1)

DocTexts == {DocText(es) : es \in Docs}

SampleTexts == DocTexts \cup {generate(t) : t \in ContainersOf(Leaves) \cup Leaves}

NumeralTexts ==
    {<<"0">>, <<"4", "2">>, <<"0", "0", "7">>,
     <<"2", "1", "4", "7", "4", "8", "3", "6", "4", "7">>,
     <<"2", "1", "4", "7", "4", "8", "3", "6", "4", "8">>,
     <<"9", "9", "9", "9", "9", "9", "9", "9", "9", "9", "9", "9">>,
     <<"3", ".", "1", "4">>, <<"1", "e", "3">>, <<"1", "e">>, <<"1", ".">>,
     <<"1", ".", "2", ".", "3">>, <<"1", "e", "3", "0", "9">>, <<"2", "e", "3", "0", "8">>,
     <<"-", "1">>, <<"1", "x">>}

\* the length of the longest sample
SampleLen == CHOOSE n \in 0..200 : /\ \E s \in SampleTexts : Len(s) = n
                                   /\ \A s \in SampleTexts : Len(s) <= n

\* what is left of a sample cut short
Prefixes == {SubSeq(s, 1, Min(k, Len(s))) : s \in SampleTexts, k \in 0..SampleLen}

\* a sample with one character left out
Deletions ==
    {SubSeq(s, 1, Min(i, Len(s)) - 1) \o SubSeq(s, Min(i, Len(s)) + 1, Len(s)) :
        s \in SampleTexts, i \in 1..SampleLen}

Texts == RandomTexts \cup NumeralTexts \cup Prefixes \cup Deletions

(***************************************************************************)
(* The actions.                                                            *)
(***************************************************************************)
Init ==
    /\ node \in Trees
    /\ str = <<>>
    /\ pos = 0
    /\ stack = <<>>
    /\ ret = NoResult
    /\ pc = "idle"
    /\ cout = NoErr
    /\ parsed = NoResult
    /\ out = <<>>
    /\ ops = 0

\* parser(text), up to parse_value: JsonParser p = {json_str}, then parse()
\* skips the white space
Call(text) ==
    /\ str' = text
    /\ parsed' = NoResult
    /\ \/ /\ parse_whitespace(text, 0) >= Len(text)
          /\ pc' = "abort"
          /\ UNCHANGED <<pos, stack, ret>>
       \/ /\ pc' = "value"
          /\ pos' = parse_whitespace(text, 0)
          /\ stack' = <<>>
          /\ ret' = NoResult
    /\ UNCHANGED <<cout, node, out, ops>>

\* the driver's first statement: parser(json_str) on the text it has read
ParserCall ==
    /\ pc = "idle" /\ node = DefaultNode /\ parsed = NoResult /\ out = <<>> /\ ops = 0
    /\ \E text \in Texts : Call(text)

\* parser(out) on a text the generator has written, the node not yet changed
ParserCallGenerated ==
    /\ pc = "idle" /\ parsed = NoResult /\ ops = 0 /\ out = generate(node)
    /\ Call(out)

ParseValue == pc = "value" /\ Commit(parse_value)

ArrayLoop == pc = "loop" /\ Top.kind = "array" /\ Commit(array_loop)

ArrayAfter ==
    pc = "ret" /\ stack # <<>> /\ Top.kind = "array" /\ Commit(array_after)

ObjectLoop == pc = "loop" /\ Top.kind = "object" /\ Commit(object_loop)

ObjectAfter ==
    pc = "ret" /\ stack # <<>> /\ Top.kind = "object" /\ Commit(object_after)

\* parse() and parser() return to the driver: the Node, or the error, which
\* parser() prints
ParseReturn ==
    /\ pc = "ret" /\ stack = <<>>
    /\ pc' = "idle"
    /\ parsed' = ret
    /\ cout' = IF ret.ok THEN cout ELSE ret.err
    /\ ret' = NoResult
    /\ UNCHANGED <<str, pos, stack, node, out, ops>>

\* auto json_node = parser(json_str).value(), the end of the statement: the Node
\* moves out of the temporary std::expected (on an error value() throws
\* std::bad_expected_access), and the JsonParser p is gone
ResultValue ==
    /\ pc = "idle" /\ parsed # NoResult
    /\ IF parsed.ok
       THEN node' = parsed.val /\ pc' = pc /\ parsed' = NoResult
            /\ str' = <<>> /\ pos' = 0
       ELSE pc' = "abort" /\ UNCHANGED <<node, parsed, str, pos>>
    /\ UNCHANGED <<stack, ret, cout, out, ops>>

\* std::cout << json_node
Generate ==
    /\ pc = "idle" /\ parsed = NoResult
    /\ out' = generate(node)
    /\ UNCHANGED <<str, pos, stack, ret, pc, cout, parsed, node, ops>>

\* json_node.push(v)
Push ==
    /\ pc = "idle" /\ parsed = NoResult /\ ops < MaxOps
    /\ \E v \in NewValues : node' = push(node, v)
    /\ ops' = ops + 1
    /\ UNCHANGED <<str, pos, stack, ret, pc, cout, parsed, out>>

\* json_node[k].value = v: operator[] throws when the node is no Object
\* (std::runtime_error) or has no key k (std::out_of_range from std::map::at)
Assign ==
    /\ pc = "idle" /\ parsed = NoResult /\ ops < MaxOps
    /\ \E k \in Keys, v \in NewValues :
         IF HasField(node, k)
         THEN node' = FieldAssign(node, k, v) /\ pc' = pc /\ ops' = ops + 1
         ELSE pc' = "abort" /\ UNCHANGED <<node, ops>>
    /\ UNCHANGED <<str, pos, stack, ret, cout, parsed, out>>

ParserStep ==
    \/ ParseValue
    \/ ArrayLoop
    \/ ArrayAfter
    \/ ObjectLoop
    \/ ObjectAfter
    \/ ParseReturn

Next ==
    \/ ParserCall
    \/ ParserCallGenerated
    \/ ParserStep
    \/ ResultValue
    \/ Generate
    \/ Push
    \/ Assign

Spec == Init /\ [][Next]_vars

(***************************************************************************)
(* What the claims are stated with.                                        *)
(***************************************************************************)
\* the texts ts joined by single commas
RECURSIVE Join(_)
Join(ts) ==
    IF ts = <<>> THEN <<>>
    ELSE IF Len(ts) = 1 THEN ts[1]
    ELSE ts[1] \o <<",">> \o Join(Tail(ts))

\* the keys K in ascending order
RECURSIVE Ascending(_)
Ascending(K) ==
    IF K = {} THEN <<>>
    ELSE LET m == CHOOSE k \in K : \A j \in K \ {k} : StrLess(k, j)
         IN  <<m>> \o Ascending(K \ {m})

KeysOf(o) == {o[i][1] : i \in 1..Len(o)}

ValueOf(o, k) == o[CHOOSE i \in 1..Len(o) : o[i][1] = k][2]

\* the text the serializer is to emit: containers as their parts joined by
\* commas, an object's entries in ascending key order
RECURSIVE Emit(_)
Emit(n) ==
    CASE n.t = "Array"  ->
           <<"[">> \o Join([i \in 1..Len(n.a) |-> Emit(n.a[i])]) \o <<"]">>
      [] n.t = "Object" ->
           LET ks == Ascending(KeysOf(n.o))
           IN  <<"{">>
               \o Join([i \in 1..Len(ks) |->
                          <<Quote>> \o ks[i] \o <<Quote, ":">> \o Emit(ValueOf(n.o, ks[i]))])
               \o <<"}">>
      [] OTHER -> generate(n)

\* no string and no key of the tree holds a '"'
RECURSIVE NoQuotes(_)
NoQuotes(n) ==
    CASE n.t = "String" -> ~Contains(n.s, Quote)
      [] n.t = "Array"  -> \A i \in 1..Len(n.a) : NoQuotes(n.a[i])
      [] n.t = "Object" -> \A i \in 1..Len(n.o) :
                              ~Contains(n.o[i][1], Quote) /\ NoQuotes(n.o[i][2])
      [] OTHER -> TRUE

\* every object of the tree holds each of its keys once
RECURSIVE UniqueKeys(_)
UniqueKeys(n) ==
    CASE n.t = "Array"  -> \A i \in 1..Len(n.a) : UniqueKeys(n.a[i])
      [] n.t = "Object" -> /\ \A i, j \in 1..Len(n.o) : n.o[i][1] = n.o[j][1] => i = j
                           /\ \A i \in 1..Len(n.o) : UniqueKeys(n.o[i][2])
      [] OTHER -> TRUE

\* every document with its text
DocTable == {<<DocText(es), es>> : es \in Docs}

\* the entries of es that no later entry of the same key follows
LastWins(es) ==
    {es[i] : i \in {i \in 1..Len(es) : \A j \in (i + 1)..Len(es) : es[j][1] # es[i][1]}}

AllDigits(s) == s # <<>> /\ \A i \in 1..Len(s) : isdigit(s[i])

\* a numeral without its leading zeros
RECURSIVE StripZeros(_)
StripZeros(s) == IF Len(s) > 1 /\ s[1] = "0" THEN StripZeros(Tail(s)) ELSE s

\* the parse of str has ended: returned to the driver, or ended the process
Ended == str # <<>> /\ ~Parsing

Returned == pc = "idle" /\ parsed # NoResult

(***************************************************************************)
(* The claims.                                                             *)
(***************************************************************************)

\* C1: whatever the text, parse returns control to its caller with a Node or a
\* failure value: no production and no dispatch step ends the process.
\* (exit(0) alone is meant here; the abort on a checked read is left aside.)
C1_NoProcessExit == pc # "exit"

\* C2: round trip: for every tree whose strings and keys hold no '"', the parse
\* of its serialization succeeds and yields a structurally equal tree.
C2_RoundTrip ==
    (Ended /\ str = generate(node) /\ NoQuotes(node))
        => (Returned /\ parsed.ok /\ parsed.val = node)

\* C3: when the end of the text is reached before the closing ']' of an open
\* array ('}' of an open object), parse returns the failure "missing closing
\* bracket" ("missing closing brace") to its caller, and no Node.
C3_UnterminatedIsReturned ==
    (cout.msg \in {"failed to find ']'", "failed to find '}'"})
        => (Returned /\ ~parsed.ok /\ parsed.err = cout)

\* C4: a numeral of digits only whose value fits a signed 64-bit integer (any
\* numeral of at most 18 digits does) parses to the Int of exactly that value.
C4_DigitsParseToInt64 ==
    (Ended /\ AllDigits(str) /\ Len(str) <= 18)
        => /\ Returned /\ parsed.ok
           /\ parsed.val.t = "Int"
           /\ IntToString(parsed.val.n) = StripZeros(str)

\* C5: inside an object, text at the key position that begins with neither '"'
\* nor '}' makes the object production fail with "object key must be a string":
\* no key is accepted from text that lacks the opening quote.
C5_UnquotedKeyRejected ==
    [][(/\ pc = "loop" /\ Top.kind = "object"
        /\ pos < Len(str) /\ At(str, pos) \notin {Quote, "}"}
        /\ pc' # "abort")
           => cout'.msg = "key of objects isnt string"]_vars

\* C6: every object parse produces holds each key once; when the text repeats a
\* key the value kept is that of its last occurrence, and the object has as many
\* entries as the text has distinct keys.
C6_LastWriteWins ==
    (Returned /\ parsed.ok) =>
        /\ UniqueKeys(parsed.val)
        /\ \A d \in DocTable :
              d[1] = str =>
                 /\ parsed.val.t = "Object"
                 /\ {parsed.val.o[i] : i \in 1..Len(parsed.val.o)} = LastWins(d[2])
                 /\ Len(parsed.val.o) = Cardinality(KeysOf(d[2]))

C6_Witness ==
    /\ Returned /\ parsed.ok
    /\ \E d \in DocTable :
          /\ d[1] = str
          /\ \E i, j \in 1..Len(d[2]) : i < j /\ d[2][i][1] = d[2][j][1]
                                        /\ d[2][i][2] # d[2][j][2]
          /\ Len(parsed.val.o) = 2

\* C7: assigning v through node[k] on an object that has key k makes the
\* serializer emit v for k and leaves every other entry, the keys and their
\* order in the output as they were.
C7_FieldAssignFrame ==
    [][\A k \in Keys, v \in NewValues :
          (/\ pc = "idle" /\ parsed = NoResult /\ ops' = ops + 1
           /\ HasField(node, k) /\ node' = FieldAssign(node, k, v))
             => /\ node'.t = "Object"
                /\ [i \in 1..Len(node'.o) |-> node'.o[i][1]]
                     = [i \in 1..Len(node.o) |-> node.o[i][1]]
                /\ \A i \in 1..Len(node.o) :
                      node'.o[i][2] = IF node.o[i][1] = k THEN v ELSE node.o[i][2]
                /\ generate(node')
                     = <<"{">>
                       \o Join([i \in 1..Len(node.o) |->
                                  <<Quote>> \o node.o[i][1] \o <<Quote, ":">>
                                  \o generate(IF node.o[i][1] = k THEN v
                                              ELSE node.o[i][2])])
                       \o <<"}">>]_vars

C7_Witness ==
    /\ pc = "idle" /\ ops > 0
    /\ node.t = "Object" /\ Len(node.o) = 2
    /\ node.o[1][2] = StringV(<<"a">>) /\ node.o[2][2] = IntV(99)
    /\ out = generate(node)

\* C8: push on an array of length n leaves an array of length n + 1 whose first
\* n elements are the old ones in their order and whose last is the pushed value;
\* push on any other node changes nothing.
C8_PushAppends ==
    [][\A v \in NewValues :
          (/\ pc = "idle" /\ parsed = NoResult /\ ops' = ops + 1
           /\ node' = push(node, v))
             => IF node.t = "Array"
                THEN /\ node'.t = "Array"
                     /\ Len(node'.a) = Len(node.a) + 1
                     /\ SubSeq(node'.a, 1, Len(node.a)) = node.a
                     /\ node'.a[Len(node'.a)] = v
                ELSE node' = node]_vars

C8_Witness ==
    /\ pc = "idle" /\ ops >= 2
    /\ node.t = "Array" /\ Len(node.a) >= 3
    /\ node.a[Len(node.a) - 1] = IntV(99)
    /\ node.a[Len(node.a)] = ArrayV(<<>>)

\* C9: the serializer emits an array as '[', its elements' texts in order joined
\* by single commas, ']', and an object as '{', its "key":value pairs in
\* ascending key order joined by single commas, '}', with no trailing comma and
\* no white space, at every depth; the empty ones are "[]" and "{}".
C9_GenerateFormat == [][out' # out => out' = Emit(node)]_vars

C9_Witness ==
    /\ out = generate(node)
    /\ node.t = "Array" /\ Len(node.a) = 2
    /\ node.a[1].t = "Object" /\ node.a[1].o # <<>>
    /\ node.a[2] = ArrayV(<<>>)

\* the steps left to a parse are bounded by this, which every step lowers
Rank ==
    5 * (Len(str) - pos)
    + (CASE pc = "ret" /\ ret.ok -> 4
         [] pc = "loop" -> 3
         [] pc = "value" -> 2
         [] pc = "ret" /\ ~ret.ok -> 1
         [] OTHER -> 0)

\* C10: during a parse the cursor never moves back, every iteration of the array
\* loop and of the object loop ends with the cursor beyond where the iteration
\* began or ends the production, and the parse ends: its steps are bounded by
\* the length of the text.
C10_Progress ==
    [][Parsing =>
         /\ pos' >= pos
         /\ pos' <= Len(str)
         /\ (pc = "ret" /\ stack # <<>>) =>
               \/ pc' = "loop" /\ pos' > Top.start
               \/ pc' \in {"exit", "abort"}
         /\ Rank' < Rank
         /\ Rank' >= 0]_vars

C10_Witness ==
    /\ pc = "loop" /\ Len(Top.acc) >= 2
    /\ pos > Top.start + 1
    /\ pos = Len(str)

====
